---- MODULE Spec2Model ----
(***************************************************************************)
(* Model of the site monitor of shuvo-paul/sitemonitor: package monitor    *)
(* (Site, Manager and the per-site polling goroutine) and the observer     *)
(* fan-out exercised by TestNotifierService_Subject.                       *)
(*                                                                         *)
(* Atomicity.  Every Manager method holds m.mu from its first to its last  *)
(* statement and never blocks inside, so each method is one action.  The   *)
(* polling goroutine takes no lock around its read of site.Enabled and     *)
(* none around the HTTP request, so a wake, the call of Check, the arrival *)
(* of the response and the two writes of updateStatus are separate steps;  *)
(* s.mu is modelled by the field mu of the site (its holder, 0 if free).   *)
(***************************************************************************)
EXTENDS Integers, Sequences, FiniteSets, TLC

\* ---------------------------------------------------------------- bounds
\* Site objects (*Site values) that callers construct with NewSite.
NumSites == 3
\* Polling goroutines spawned in one behaviour (successful RegisterSite calls).
MaxTasks == 2
\* Readings of time.Now() in one behaviour.
MaxClock == 2
\* Observers attached to the Subject.
MaxObs == 3
\* Sessions created in one behaviour, the users they are created for, the
\* salts bcrypt draws from, and the last instant of the session clock.
MaxSessions == 2
NumUsers == 2
NumSalts == 2
MaxTime == 4

\* ------------------------------------------------------------- constants
statusUp == "up"
statusError == "error"
statusDown == "down"
statusPaused == "paused"

\* The zero value of Site.Status: NewSite does not set the field.
NoStatus == ""

\* r.StatusCode >= 400 in Site.Check.
HTTPErrorFloor == 400

\* Outcomes of s.client.Get: a transport error, or a response with a code.
ConnErr == -1
StatusCodes == {200, 399, 400, 500}
Outcomes == {ConnErr} \cup StatusCodes

SitePtrs == 1..NumSites
TaskIds == 1..MaxTasks

\* Two site objects share each ID, so that an ID can be registered again
\* with a new target after a revocation.
SiteIDOf(s) == (s + 1) \div 2
IDs == {SiteIDOf(s) : s \in SitePtrs}

VARIABLES
    site,       \* the heap of Site objects: SitePtrs -> Site
    sites,      \* Manager.sites: a map from ID to *Site
    tasks,      \* the polling goroutines: TaskIds -> [pc, site, done, resp]
    now,        \* the clock read by time.Now()
    call,       \* what the last step returned to its caller
    observers,  \* Subject: the attached observers, in order of attachment
    errors,     \* the slice returned by the last Subject.Notify
    notified,   \* the State passed to the last Subject.Notify
    sessions,   \* the rows of the sessions table
    lastID      \* the last id the sessions table has given out

monitorVars == <<site, sites, tasks, now>>
hubVars == <<observers, errors, notified>>
sessionVars == <<sessions, lastID>>
vars == <<site, sites, tasks, now, call, observers, errors, notified,
          sessions, lastID>>

\* ----------------------------------------------------------------- Site
\* NewSite: ID, URL and Interval from the arguments, Enabled true; Status,
\* StatusChangedAt and cancelFunc keep their zero values.
NewSite(id, url, interval) ==
    [ID |-> id, URL |-> url, Status |-> NoStatus, Enabled |-> TRUE,
     Interval |-> interval, StatusChangedAt |-> 0, mu |-> 0, cancelFunc |-> 0]

NoResp == -2
NoTask == [pc |-> "none", site |-> 0, done |-> FALSE, resp |-> NoResp]

\* What the last step returned to its caller: RegisterSite's error, the
\* outcome of RevokeSite (which returns nothing, or panics), or the error
\* Check returned to the polling goroutine together with the outcome of
\* its request; a wake that skips its check is recorded too.  For a
\* RevokeSite that found the ID, out is the goroutine whose cancelFunc it
\* called; for EnableSite and DisableSite, which return nothing, out is the
\* target whose flag the call changed.  Every other step returns nothing.
Ret(op, out, res) == [op |-> op, out |-> out, res |-> res]
Void == Ret("", NoResp, "")

\* notification.State and its zero value.
States == {[Name |-> "test-system", Status |-> statusUp],
           [Name |-> "test-system", Status |-> statusDown],
           [Name |-> "test-system", Status |-> statusError]}
EmptyState == [Name |-> "", Status |-> ""]

Init ==
    /\ site = [s \in SitePtrs |-> NewSite(SiteIDOf(s), s, 1)]
    /\ sites = <<>>
    /\ tasks = [t \in TaskIds |-> NoTask]
    /\ now = 1
    /\ call = Void
    /\ observers = <<>>
    /\ errors = <<>>
    /\ notified = EmptyState
    /\ sessions = {}
    /\ lastID = 0

\* -------------------------------------------------------------- Manager
Spawned == {t \in TaskIds : tasks[t].pc # "none"}

\* delete(m.sites, id): no effect when the key is absent.
MapDelete(m, id) == [i \in (DOMAIN m) \ {id} |-> m[i]]

\* Mutant: the insertion into the map is lost.
MapPutLost(m, id, s) == m

\* m.sites[id] = s
MapPut(m, id, s) == [i \in (DOMAIN m) \cup {id} |-> IF i = id THEN s ELSE m[i]]

\* Mutant: the guard against a second registration is dropped.
AlreadyMonitoredNever(s) == FALSE

\* if _, ok := m.sites[site.ID]; ok
AlreadyMonitored(s) == site[s].ID \in DOMAIN sites

RegisterSite(s) ==
    IF AlreadyMonitored(s)
    THEN /\ call' = Ret("RegisterSite", NoResp, "already being monitored")
         /\ UNCHANGED <<monitorVars, hubVars, sessionVars>>
    ELSE /\ Cardinality(Spawned) < MaxTasks
         /\ LET t == Cardinality(Spawned) + 1 IN
              /\ site' = [site EXCEPT ![s].cancelFunc = t]
              /\ sites' = MapPut(sites, site[s].ID, s)
              /\ tasks' = [tasks EXCEPT ![t] =
                              [pc |-> "select", site |-> s, done |-> FALSE, resp |-> NoResp]]
         /\ call' = Ret("RegisterSite", NoResp, "")
         /\ UNCHANGED <<now, hubVars, sessionVars>>

\* Mutant: RevokeSite forgets to call the cancelFunc.
CancelForgotten(tk, t) == tk

\* site.cancelFunc(): the context of goroutine t is cancelled, which closes
\* its Done channel.
Cancel(tk, t) == [tk EXCEPT ![t].done = TRUE]

\* The else branch evaluates site.URL with site == nil (the zero value the
\* map lookup gives for an absent key): a nil pointer dereference, which
\* panics.  The deferred Unlock runs, so the manager is left as it was and
\* the panic reaches the caller.  The model goes on from there, as the
\* program does under a caller that recovers (net/http does for a handler);
\* under any other caller the process ends at that step.
RevokeSite(id) ==
    IF id \in DOMAIN sites
    THEN LET s == sites[id] IN
         /\ tasks' = Cancel(tasks, site[s].cancelFunc)
         /\ sites' = MapDelete(sites, id)
         /\ call' = Ret("RevokeSite", site[s].cancelFunc, "")
         /\ UNCHANGED <<site, now, hubVars, sessionVars>>
    ELSE /\ call' = Ret("RevokeSite", NoResp, "panic")
         /\ UNCHANGED <<monitorVars, hubVars, sessionVars>>

\* Mutant: the flag is flipped instead of set.
SetEnabledFlip(st, s, v) == [st EXCEPT ![s].Enabled = ~st[s].Enabled]

\* site.Enabled = v
SetEnabled(st, s, v) == [st EXCEPT ![s].Enabled = v]

\* The target whose flag a call with this ID and value changes, if any.
FlagChanged(id, v) ==
    IF id \in DOMAIN sites /\ site[sites[id]].Enabled # v THEN sites[id] ELSE NoResp

EnableSite(id) ==
    /\ site' = IF id \in DOMAIN sites
               THEN SetEnabled(site, sites[id], TRUE)
               ELSE site
    /\ call' = Ret("EnableSite", FlagChanged(id, TRUE), "")
    /\ UNCHANGED <<sites, tasks, now, hubVars, sessionVars>>

DisableSite(id) ==
    /\ site' = IF id \in DOMAIN sites
               THEN SetEnabled(site, sites[id], FALSE)
               ELSE site
    /\ call' = Ret("DisableSite", FlagChanged(id, FALSE), "")
    /\ UNCHANGED <<sites, tasks, now, hubVars, sessionVars>>

\* ------------------------------------------------------------ Site.Check
\* Mutant: the comparison with 400 is strict.
CheckStatusStrict(o) ==
    IF o = ConnErr THEN statusError
    ELSE IF o > HTTPErrorFloor THEN statusDown
    ELSE statusUp

\* The three branches of Site.Check: the status it passes to updateStatus
\* and the error it returns ("" stands for nil).
CheckStatus(o) ==
    IF o = ConnErr THEN statusError
    ELSE IF o >= HTTPErrorFloor THEN statusDown
    ELSE statusUp

CheckErr(o) ==
    IF o = ConnErr THEN "connection error"
    ELSE IF o >= HTTPErrorFloor THEN "HTTP error"
    ELSE ""

\* Mutant: updateStatus writes without comparing.
StatusDiffersAlways(s, status) == TRUE

\* updateStatus: if s.Status != status
StatusDiffers(s, status) == site[s].Status # status

\* Mutant: every wake is skipped.
WakeSkipsAlways(s) == TRUE

\* Mutant: the wake ignores the Enabled flag.
WakeSkipsNever(s) == FALSE

\* The polling goroutine: if !site.Enabled { continue }
WakeSkips(s) == ~site[s].Enabled

\* Mutant: an error from Check ends the polling goroutine.
AfterCheckFatal(err) == IF err # "" THEN "exited" ELSE "select"

\* if err := site.Check(); err != nil { slog.Error(...) }: the error is
\* logged and the loop goes back to its select.
AfterCheck(err) == "select"

\* Checks begun and not yet returned.
InFlight == {t \in TaskIds : tasks[t].pc \in {"check", "get", "stamp"}}

\* case <-ticker.C: the goroutine wakes and reads site.Enabled.
Tick(t) ==
    /\ tasks[t].pc = "select"
    /\ LET s == tasks[t].site IN
         IF WakeSkips(s)
         THEN /\ call' = Ret("tick", NoResp, "skip")
              /\ UNCHANGED <<monitorVars, hubVars, sessionVars>>
         ELSE /\ (now - 1) + Cardinality(InFlight) < MaxClock
              /\ tasks' = [tasks EXCEPT ![t].pc = "check"]
              /\ call' = Void
              /\ UNCHANGED <<site, sites, now, hubVars, sessionVars>>

\* site.Check() is entered: s.client.Get(s.URL) is issued.
CallCheck(t) ==
    /\ tasks[t].pc = "check"
    /\ tasks' = [tasks EXCEPT ![t].pc = "get"]
    /\ call' = Void
    /\ UNCHANGED <<site, sites, now, hubVars, sessionVars>>

\* Get returns with outcome o; Check calls updateStatus, which takes s.mu
\* and compares.  With an equal status it unlocks and Check returns; with
\* a different one it writes Status and still holds the lock.
Response(t, o) ==
    /\ tasks[t].pc = "get"
    /\ LET s == tasks[t].site
           st == CheckStatus(o) IN
         /\ site[s].mu = 0
         /\ IF StatusDiffers(s, st)
            THEN /\ site' = [site EXCEPT ![s].Status = st, ![s].mu = t]
                 /\ tasks' = [tasks EXCEPT ![t].pc = "stamp", ![t].resp = o]
                 /\ call' = Void
            ELSE /\ site' = site
                 /\ tasks' = [tasks EXCEPT ![t].pc = AfterCheck(CheckErr(o))]
                 /\ call' = Ret("Check", o, CheckErr(o))
    /\ UNCHANGED <<sites, now, hubVars, sessionVars>>

\* updateStatus: s.StatusChangedAt = time.Now(), then the deferred Unlock;
\* Check returns.  Every reading of the clock is later than the last one.
Stamp(t) ==
    /\ tasks[t].pc = "stamp"
    /\ LET s == tasks[t].site IN
         site' = [site EXCEPT ![s].StatusChangedAt = now, ![s].mu = 0]
    /\ now' = now + 1
    /\ tasks' = [tasks EXCEPT ![t].pc = AfterCheck(CheckErr(tasks[t].resp)),
                              ![t].resp = NoResp]
    /\ call' = Ret("Check", tasks[t].resp, CheckErr(tasks[t].resp))
    /\ UNCHANGED <<sites, hubVars, sessionVars>>

\* case <-ctx.Done(): delete(m.sites, site.ID) under m.mu, then return.
CtxDone(t) ==
    /\ tasks[t].pc = "select"
    /\ tasks[t].done
    /\ sites' = MapDelete(sites, site[tasks[t].site].ID)
    /\ tasks' = [tasks EXCEPT ![t].pc = "exited"]
    /\ call' = Void
    /\ UNCHANGED <<site, now, hubVars, sessionVars>>

\* ------------------------------------------------- Subject and observers
\* Mutant: a failing observer swallows its error.
MockObserverNotifySilent(o, state) == [obs |-> o, err |-> ""]

\* mockObserver.Notify: a failing observer returns its error and keeps its
\* state; any other stores the state and returns nil ("" here).
MockObserverNotify(o, state) ==
    IF o.err # ""
    THEN [obs |-> o, err |-> o.err]
    ELSE [obs |-> [o EXCEPT !.state = state], err |-> ""]

\* newMockObserver(err)
NewMockObserver(err) == [state |-> EmptyState, err |-> err]

\* Subject.Attach: the observer is appended.
Attach(err) ==
    /\ Len(observers) < MaxObs
    /\ observers' = Append(observers, NewMockObserver(err))
    /\ call' = Void
    /\ UNCHANGED <<monitorVars, errors, notified, sessionVars>>

\* Subject.Notify: every observer is called with the state, in order; the
\* errors that are not nil are collected and returned.
NotifyAll(obs, state) ==
    LET results == [i \in DOMAIN obs |-> MockObserverNotify(obs[i], state)]
        failed(r) == r.err # ""
    IN  [observers |-> [i \in DOMAIN obs |-> results[i].obs],
         errors |-> [i \in 1..Len(SelectSeq(results, failed)) |->
                        SelectSeq(results, failed)[i].err]]

Notify(state) ==
    /\ observers' = NotifyAll(observers, state).observers
    /\ errors' = NotifyAll(observers, state).errors
    /\ notified' = state
    /\ call' = Ret("Notify", NoResp, "")
    /\ UNCHANGED <<monitorVars, sessionVars>>

NextHub ==
    \/ \E err \in {"", "notification error"} : Attach(err)
    \/ \E state \in States : Notify(state)

SpecHub == Init /\ [][NextHub]_vars

\* ------------------------------------------------------------- sessions
\* The session service over its table.  The database is taken to answer:
\* a failed Exec or a failed connection is not modelled.
UserIDs == 1..NumUsers
Salts == 1..NumSalts

\* Token strings.  uuid.New().String() gives a 36-character UUID, the n-th
\* one drawn being UUIDString(n); bcrypt.GenerateFromPassword gives the
\* 60-character "$2a$10$..." encoding of a random salt and the hash of the
\* password under it.  Two strings are equal when they are the same record.
UUIDString(n) == [alg |-> "uuid", salt |-> 0, v |-> n]

GenerateFromPassword(password, salt) ==
    [alg |-> "bcrypt", salt |-> salt, v |-> password.v]

\* ExpiresAt: time.Now().Add(24 * time.Hour), as instants of the clock.
TTL == 2

\* (24h after) the second reading of the clock in CreateSession is not
\* before the first.
CreateSession(userID) ==
    /\ lastID < MaxSessions
    /\ \E salt \in Salts, d \in {0, 1} :
          LET plainToken == UUIDString(lastID + 1)
              hashedToken == GenerateFromPassword(plainToken, salt)
          IN  /\ now + d <= MaxTime
              /\ now' = now + d
              /\ sessions' = sessions \cup
                    {[ID |-> lastID + 1, UserID |-> userID, Token |-> hashedToken,
                      CreatedAt |-> now, ExpiresAt |-> now' + TTL]}
              /\ lastID' = lastID + 1
              /\ call' = Ret("CreateSession", lastID + 1, "")
    /\ UNCHANGED <<site, sites, tasks, hubVars>>

\* SELECT ... FROM sessions WHERE token = ?
GetByToken(token) == {r \in sessions : r.Token = token}

\* DELETE FROM sessions WHERE id = ?
Delete(sessionID) == {r \in sessions : r.ID # sessionID}

\* session.ExpiresAt.Before(time.Now())
Expired(session) == session.ExpiresAt < now

ValidateSession(token) ==
    /\ IF GetByToken(token) = {}
       THEN /\ call' = Ret("ValidateSession", NoResp, "failed to get session")
            /\ sessions' = sessions
       ELSE \E session \in GetByToken(token) :
               IF Expired(session)
               THEN /\ sessions' = Delete(session.ID)
                    /\ call' = Ret("ValidateSession", NoResp, "session has expired")
               ELSE /\ sessions' = sessions
                    /\ call' = Ret("ValidateSession", session.ID, "")
    /\ UNCHANGED <<monitorVars, hubVars, lastID>>

DeleteSession(sessionID) ==
    /\ sessions' = Delete(sessionID)
    /\ call' = Ret("DeleteSession", NoResp, "")
    /\ UNCHANGED <<monitorVars, hubVars, lastID>>

\* Time passes.
Pass ==
    /\ now < MaxTime
    /\ now' = now + 1
    /\ call' = Void
    /\ UNCHANGED <<site, sites, tasks, hubVars, sessionVars>>

\* The token strings a caller can present: the UUIDs that are given out
\* and the strings that can stand in the token column.
Presentable ==
    {UUIDString(n) : n \in 1..MaxSessions}
        \cup {GenerateFromPassword(UUIDString(n), salt) :
                  n \in 1..MaxSessions, salt \in Salts}

NextSession ==
    \/ \E userID \in UserIDs : CreateSession(userID)
    \/ \E token \in Presentable : ValidateSession(token)
    \/ \E sessionID \in 1..MaxSessions : DeleteSession(sessionID)
    \/ Pass

SpecSession == Init /\ [][NextSession]_vars

Next ==
    \/ \E s \in SitePtrs : RegisterSite(s)
    \/ \E id \in IDs : RevokeSite(id)
    \/ \E id \in IDs : EnableSite(id)
    \/ \E id \in IDs : DisableSite(id)
    \/ \E t \in TaskIds : Tick(t)
    \/ \E t \in TaskIds : CallCheck(t)
    \/ \E t \in TaskIds, o \in Outcomes : Response(t, o)
    \/ \E t \in TaskIds : Stamp(t)
    \/ \E t \in TaskIds : CtxDone(t)

Spec == Init /\ [][Next]_vars

\* Scheduling.  A request ends (the client has a timeout), a goroutine that
\* can run does, a goroutine waiting for s.mu gets it once it is released,
\* and select chooses among its ready cases at random, so a ready ctx.Done
\* case is taken after finitely many wakes.
Fairness ==
    \A t \in TaskIds :
        /\ WF_vars(CallCheck(t))
        /\ SF_vars(\E o \in Outcomes : Response(t, o))
        /\ WF_vars(Stamp(t))
        /\ SF_vars(CtxDone(t))

FairSpec == Spec /\ Fairness

\* ------------------------------------------------------------ properties
Running(t) == tasks[t].pc \notin {"none", "exited"}
TaskSiteID(t) == site[tasks[t].site].ID

\* C1: RevokeSite with an ID that is not in the registry returns normally
\* (no panic) and changes nothing: not the registry, no target and no
\* polling task.  (A RevokeSite step that leaves the registry as it was is
\* one whose ID was absent.)
C1_RevokeUnknownIsNoop ==
    [][(call'.op = "RevokeSite" /\ sites' = sites)
          => (call'.res = "" /\ UNCHANGED <<site, tasks, now>>)]_vars

\* The polling tasks of an ID that were started and whose context is not cancelled.
LiveTasks(id) ==
    {t \in TaskIds : Running(t) /\ ~tasks[t].done /\ TaskSiteID(t) = id}

\* C2: an ID in the registry has exactly one live polling task and an ID
\* not in it has none.  A task counts as live here from its start until its
\* context is cancelled, which is the reading most favourable to the code.
C2_RegistryMatchesTasks ==
    \A id \in IDs :
        IF id \in DOMAIN sites
        THEN Cardinality(LiveTasks(id)) = 1
        ELSE LiveTasks(id) = {}

\* C3: the exit of a cancelled polling task removes no registration: every
\* ID that is in the registry when the task handles its cancellation is
\* still in it afterwards (what is registered then under the task's ID is
\* a later registration, since RevokeSite removed the task's own).
C3_ExitKeepsNewRegistration ==
    [][\A t \in TaskIds :
          (tasks[t].pc # "exited" /\ tasks'[t].pc = "exited")
              => \A id \in DOMAIN sites : id \in DOMAIN sites']_vars

\* C4: RegisterSite with an ID that is in the registry returns the "already
\* being monitored" error and changes nothing; so a polling task is started,
\* and a target's cancelFunc is set, only by a RegisterSite that returns nil
\* for an ID that was not in the registry.
C4_DuplicateRegisterRejected ==
    [][/\ (call'.op = "RegisterSite" /\ call'.res # "")
             => (call'.res = "already being monitored"
                 /\ UNCHANGED <<site, sites, tasks, now>>)
       /\ \A t \in TaskIds :
             (tasks[t].pc = "none" /\ tasks'[t].pc # "none")
                 => /\ call'.op = "RegisterSite" /\ call'.res = ""
                    /\ site[tasks'[t].site].ID \notin DOMAIN sites
                    /\ Cardinality(DOMAIN sites') = Cardinality(DOMAIN sites) + 1
       /\ \A s \in SitePtrs :
             site'[s].cancelFunc # site[s].cancelFunc
                 => (site[s].ID \notin DOMAIN sites /\ call'.res = "")]_vars

C4_Witness ==
    /\ call = Ret("RegisterSite", NoResp, "already being monitored")
    /\ Cardinality(DOMAIN sites) = 1

\* A later RegisterSite has started a goroutine for the ID of goroutine t.
ReRegistered(t) ==
    \E u \in TaskIds : u > t /\ tasks[u].pc # "none" /\ TaskSiteID(u) = TaskSiteID(t)

\* C5: once RevokeSite has found an ID and called the cancelFunc of its
\* goroutine t, then under fair scheduling t eventually has exited, and
\* the ID is absent from the registry unless it was registered again.
C5_RevokedTaskExits ==
    \A t \in TaskIds :
        (call.op = "RevokeSite" /\ call.out = t)
            ~> (/\ tasks[t].pc = "exited"
                /\ (~ReRegistered(t) => TaskSiteID(t) \notin DOMAIN sites))

C5_Witness ==
    \E t \in TaskIds :
        /\ tasks[t].pc = "exited"
        /\ ~ReRegistered(t)
        /\ TaskSiteID(t) \notin DOMAIN sites
        /\ site[tasks[t].site].Status # NoStatus

\* The target registered under some ID, as the claims about Enabled mean it.
Registered(s) == site[s].ID \in DOMAIN sites /\ sites[site[s].ID] = s

\* A polling task of target s enters Check in this step.
StartsCheck(s) ==
    \E t \in TaskIds : tasks[t].site = s /\ tasks[t].pc # "get" /\ tasks'[t].pc = "get"

\* C6 as claimed: while the Enabled flag of a registered target is false,
\* its polling task starts no Check and its Status and StatusChangedAt are
\* not modified.
C6_DisabledNeverChecked ==
    [][\A s \in SitePtrs :
          (Registered(s) /\ ~site[s].Enabled /\ ~site'[s].Enabled)
              => /\ ~StartsCheck(s)
                 /\ site'[s].Status = site[s].Status
                 /\ site'[s].StatusChangedAt = site[s].StatusChangedAt]_vars

\* C6 as amended: a wake at which the polling task finds Enabled false
\* changes nothing (no Check is started, Status and StatusChangedAt are
\* left alone); a task goes on to Check only from a wake at which it found
\* Enabled true, and Status and StatusChangedAt are written only by a task
\* that has passed such a wake and not yet returned from its Check.
C6_DisabledWakeSkips ==
    [][/\ \A t \in TaskIds :
             (tasks[t].pc = "select" /\ tasks'[t].pc # "select")
                 => \/ tasks'[t].pc = "exited"
                    \/ (tasks'[t].pc = "check" /\ site[tasks[t].site].Enabled)
       /\ call'.op = "tick" => UNCHANGED <<site, sites, tasks, now>>
       /\ \A t \in TaskIds :
             (tasks'[t].pc = "get" /\ tasks[t].pc # "get") => tasks[t].pc = "check"
       /\ \A s \in SitePtrs :
             (\/ site'[s].Status # site[s].Status
              \/ site'[s].StatusChangedAt # site[s].StatusChangedAt)
                 => \E t \in TaskIds :
                        tasks[t].site = s /\ tasks[t].pc \in {"get", "stamp"}]_vars

\* A wake has just been skipped on a disabled, registered target that has
\* been checked.
C6_Witness ==
    /\ call.op = "tick"
    /\ \E t \in TaskIds :
          /\ tasks[t].pc = "select"
          /\ Registered(tasks[t].site)
          /\ ~site[tasks[t].site].Enabled
          /\ site[tasks[t].site].Status # NoStatus

\* The attached observers that were built with an error.
Failing == {i \in DOMAIN observers : observers[i].err # ""}

\* C7: after Subject.Notify(state) the returned list holds one error per
\* failing observer (so it is empty exactly when none fails) and every
\* observer that does not fail holds the state, whatever the others did.
C7_NotifyReachesAll ==
    call.op = "Notify"
        => /\ Len(errors) = Cardinality(Failing)
           /\ \A i \in DOMAIN errors : errors[i] = "notification error"
           /\ (errors = <<>>) <=> (Failing = {})
           /\ \A i \in DOMAIN observers :
                 i \notin Failing => observers[i].state = notified

\* Three observers of which exactly one fails, placed before a succeeding one.
C7_Witness ==
    /\ call.op = "Notify"
    /\ Len(observers) = 3
    /\ Cardinality(Failing) = 1
    /\ 3 \notin Failing
    /\ Len(errors) = 1
    /\ observers[3].state = notified

\* C8: a Check that changed the Status of its target is followed by a state
\* event for that transition on the hub: when the polling goroutine is back
\* at its select after the change, Subject.Notify has been called with the
\* new status.
C8_TransitionNotified ==
    [][\A t \in TaskIds :
          (tasks[t].pc = "stamp" /\ tasks'[t].pc = "select")
              => notified'.Status = site'[tasks[t].site].Status]_vars

\* Goroutine t returns from Check in this step.
Returning(t) == tasks[t].pc \in {"get", "stamp"} /\ tasks'[t].pc = "select"

\* The fields of a Site that Check has no business with.
Config(r) == <<r.ID, r.URL, r.Interval, r.Enabled, r.cancelFunc>>

\* C9: when Check returns, the target's Status is Error after a transport
\* failure, Down after a response with code >= 400 and Up after one with a
\* code < 400, and an error is returned exactly in the first two cases; no
\* step of Check changes the registry, another target, or the ID, URL,
\* Interval, Enabled or cancelFunc of its own target.
C9_CheckSetsStatus ==
    [][\A t \in TaskIds :
          /\ Returning(t) =>
                LET o == call'.out
                    st == site'[tasks[t].site].Status
                IN  /\ call'.op = "Check"
                    /\ o \in Outcomes
                    /\ o = ConnErr => (st = "error" /\ call'.res # "")
                    /\ (o # ConnErr /\ o >= 400) => (st = "down" /\ call'.res # "")
                    /\ (o # ConnErr /\ o < 400) => (st = "up" /\ call'.res = "")
          /\ (tasks[t].pc \in {"check", "get", "stamp"} /\ tasks'[t].pc # tasks[t].pc)
                => /\ sites' = sites
                   /\ \A s \in SitePtrs :
                         /\ Config(site'[s]) = Config(site[s])
                         /\ s # tasks[t].site => site'[s] = site[s]]_vars

\* A Check has just returned an error for a response with code 400, the
\* smallest one that counts as down.
C9_Witness ==
    /\ call = Ret("Check", 400, "HTTP error")
    /\ \E s \in SitePtrs : site[s].Status = "down" /\ site[s].StatusChangedAt # 0

\* A writer of target s stands between the two writes of updateStatus.
Mid(s) == \E t \in TaskIds : tasks[t].pc = "stamp" /\ tasks[t].site = s

\* C10: Status and StatusChangedAt change together.  Between the write of
\* Status and the write of StatusChangedAt the writer holds the target's
\* lock the whole time; Status changes only on entering that section and
\* StatusChangedAt only on leaving it, every such section does both, and a
\* Check that finds the status unchanged writes neither.
C10_StatusAndTimeTogether ==
    [][\A s \in SitePtrs :
          /\ \A t \in TaskIds :
                (tasks'[t].pc = "stamp" /\ tasks'[t].site = s) => site'[s].mu = t
          /\ site'[s].Status # site[s].Status => (~Mid(s) /\ Mid(s)')
          /\ site'[s].StatusChangedAt # site[s].StatusChangedAt
                => (Mid(s) /\ ~Mid(s)' /\ site'[s].mu = 0)
          /\ (Mid(s) /\ ~Mid(s)')
                => /\ site'[s].StatusChangedAt # site[s].StatusChangedAt
                   /\ site'[s].Status = site[s].Status
          /\ (~Mid(s) /\ Mid(s)') => site'[s].Status # site[s].Status]_vars

\* A second change of status is between its two writes: the new Status
\* stands beside the StatusChangedAt of the previous change, under the lock.
C10_Witness ==
    \E s \in SitePtrs :
        /\ Mid(s)
        /\ site[s].mu # 0
        /\ site[s].StatusChangedAt # 0

\* C11: in every reachable state, the state right after construction
\* included, the Status of every target is one of up, down, error, paused.
C11_StatusInDomain ==
    \A s \in SitePtrs :
        site[s].Status \in {statusUp, statusDown, statusError, statusPaused}

\* C12: RegisterSite calls for pairwise distinct IDs all succeed, in any
\* order the manager's mutex serialises them in: a call whose ID is not in
\* the registry returns nil, adds exactly its ID with its target and starts
\* exactly one polling task for it; so, as long as nothing was revoked, the
\* registry holds exactly the IDs of the started tasks, one task per ID.
C12_DistinctRegistersSucceed ==
    [][/\ \A s \in SitePtrs :
             (RegisterSite(s) /\ ~AlreadyMonitored(s))
                 => /\ call'.res = ""
                    /\ DOMAIN sites' = DOMAIN sites \cup {site[s].ID}
                    /\ sites'[site[s].ID] = s
                    /\ \A i \in DOMAIN sites : sites'[i] = sites[i]
                    /\ \E t \in TaskIds :
                          /\ tasks[t].pc = "none"
                          /\ Spawned' = Spawned \cup {t}
                          /\ tasks'[t].site = s
                          /\ \A u \in TaskIds \ {t} : tasks'[u] = tasks[u]
       /\ (\A t \in TaskIds : ~tasks'[t].done)
             => /\ DOMAIN sites' = {site'[tasks'[t].site].ID : t \in Spawned'}
                /\ Cardinality(Spawned') = Cardinality(DOMAIN sites')]_vars

\* Two targets with different IDs have been registered, the second just
\* now, and nothing was revoked.
C12_Witness ==
    /\ call = Ret("RegisterSite", NoResp, "")
    /\ Cardinality(DOMAIN sites) = 2
    /\ Cardinality(Spawned) = 2
    /\ \A t \in TaskIds : ~tasks[t].done

\* C13: DisableSite and EnableSite are idempotent and never fail.  A call
\* on a registered ID leaves the target's Enabled flag at the value of the
\* call and changes nothing else; a call that finds the flag at that value
\* already (the second of two in a row) changes nothing at all; a call on
\* an ID that is not registered changes nothing.
C13_EnableDisableIdempotent ==
    [][\A id \in IDs, v \in BOOLEAN :
          (IF v THEN EnableSite(id) ELSE DisableSite(id))
              => /\ call'.res = ""
                 /\ UNCHANGED <<sites, tasks, now>>
                 /\ IF id \in DOMAIN sites
                    THEN site' = [site EXCEPT ![sites[id]].Enabled = v]
                    ELSE site' = site
                 /\ (id \in DOMAIN sites /\ site[sites[id]].Enabled = v)
                       => site' = site]_vars

\* Every ID is registered with its target disabled, and a DisableSite that
\* found the flag false already has just returned.
C13_Witness ==
    /\ call = Ret("DisableSite", NoResp, "")
    /\ \A id \in IDs : id \in DOMAIN sites /\ ~site[sites[id]].Enabled

\* C14: an ID leaves the registry only in the cancellation handler of its
\* own polling task.  RevokeSite leaves the registry as it is, so while a
\* cancelled task has not yet handled its cancellation a RegisterSite for
\* its ID is refused as already being monitored.
C14_OnlyHandlerRemoves ==
    [][/\ \A id \in DOMAIN sites :
             id \notin DOMAIN sites'
                 => \E t \in TaskIds : /\ tasks[t].pc = "select"
                                       /\ tasks'[t].pc = "exited"
                                       /\ TaskSiteID(t) = id
       /\ call'.op = "RevokeSite" => sites' = sites
       /\ \A s \in SitePtrs :
             (/\ RegisterSite(s)
              /\ \E t \in TaskIds :
                    Running(t) /\ tasks[t].done /\ TaskSiteID(t) = site[s].ID)
                 => call'.res = "already being monitored"]_vars

\* The goroutines that are inside Check on target s: the request is out,
\* or updateStatus is running.
Checking(s) ==
    {t \in TaskIds : tasks[t].site = s /\ tasks[t].pc \in {"get", "stamp"}}

\* C15: at any time at most one Check is in flight on a target, whatever
\* the order of ticks, responses, RevokeSite and RegisterSite.
C15_OneCheckPerTarget ==
    \A s \in SitePtrs : Cardinality(Checking(s)) <= 1

\* C16: once RevokeSite has returned, the cancelled polling task starts no
\* new Check: from its select it goes nowhere but to its exit, also when a
\* tick is pending together with the cancellation.
C16_NoCheckAfterRevoke ==
    [][\A t \in TaskIds :
          (tasks[t].done /\ tasks[t].pc = "select" /\ tasks'[t].pc # "select")
              => tasks'[t].pc = "exited"]_vars

\* The locks of the program: Manager.mu and Site.mu (the Subject's lock is
\* taken by no step of the monitor).
MgrMu == "m.mu"
SiteMu == "s.mu"

\* The locks the code holds while it performs each step of the model.  The
\* methods of Manager lock m.mu on entry and unlock it on return, and so
\* does the ctx.Done branch around its delete; the ticker branch reads
\* site.Enabled and calls Check with no lock; updateStatus holds s.mu.
LocksHeld ==
    [op \in {"RegisterSite", "RevokeSite", "EnableSite", "DisableSite",
             "Tick", "CallCheck", "Response", "Stamp", "CtxDone"} |->
        CASE op \in {"RegisterSite", "RevokeSite", "EnableSite", "DisableSite",
                     "CtxDone"} -> {MgrMu}
          [] op \in {"Response", "Stamp"} -> {SiteMu}
          [] OTHER -> {}]

\* C17: EnableSite and DisableSite change Enabled holding only the target's
\* own lock, never the registry mutex; the polling task reads Enabled under
\* that same target lock; and no step holds two locks at once.
C17_LockDiscipline ==
    [][/\ \A id \in IDs :
             /\ EnableSite(id) => LocksHeld["EnableSite"] = {SiteMu}
             /\ DisableSite(id) => LocksHeld["DisableSite"] = {SiteMu}
       /\ \A t \in TaskIds : Tick(t) => SiteMu \in LocksHeld["Tick"]
       /\ \A op \in DOMAIN LocksHeld : Cardinality(LocksHeld[op]) <= 1]_vars

\* C18: DisableSite and EnableSite cancel no polling task, remove no ID and
\* start no task; and a wake of a polling task that finds its target
\* enabled (as it is from the return of EnableSite on) begins a Check, which
\* nothing but the call of Check ends.  So after DisableSite and EnableSite
\* the next wake of the original task starts a Check.
C18_ReEnableNeedsNoRespawn ==
    [][/\ \A id \in IDs :
             (DisableSite(id) \/ EnableSite(id)) => UNCHANGED <<sites, tasks>>
       /\ \A id \in DOMAIN sites :
             EnableSite(id) => site'[sites[id]].Enabled
       /\ \A t \in TaskIds :
             /\ (Tick(t) /\ site[tasks[t].site].Enabled) => tasks'[t].pc = "check"
             /\ tasks[t].pc = "check" => tasks'[t].pc \in {"check", "get"}]_vars

\* EnableSite has just set the flag of a registered target back to true
\* (DisableSite had cleared it), and the only polling task there ever was,
\* the target's own, waits at its select, not cancelled, after a Check.
C18_Witness ==
    /\ call.op = "EnableSite"
    /\ call.out \in SitePtrs
    /\ Registered(call.out)
    /\ site[call.out].Enabled
    /\ site[call.out].Status # NoStatus
    /\ Spawned = {site[call.out].cancelFunc}
    /\ tasks[site[call.out].cancelFunc] =
          [pc |-> "select", site |-> call.out, done |-> FALSE, resp |-> NoResp]

\* C19: a Check that fails never ends a polling task and never reaches
\* another target.  A task exits only from its select with its context
\* cancelled; a Check returns to the select of its task whatever it
\* returns; and no step of a Check changes the registry, another task,
\* another target, or the Enabled flag of its own target.
C19_FailedCheckAbsorbed ==
    [][\A t \in TaskIds :
          /\ (tasks[t].pc # "exited" /\ tasks'[t].pc = "exited")
                => (tasks[t].pc = "select" /\ tasks[t].done)
          /\ (tasks[t].pc \in {"get", "stamp"} /\ call'.op = "Check"
                 /\ tasks'[t].pc # tasks[t].pc)
                => (tasks'[t].pc = "select" /\ tasks'[t].done = tasks[t].done)
          /\ (tasks[t].pc \in {"check", "get", "stamp"} /\ tasks'[t].pc # tasks[t].pc)
                => /\ sites' = sites
                   /\ \A u \in TaskIds \ {t} : tasks'[u] = tasks[u]
                   /\ \A s \in SitePtrs \ {tasks[t].site} : site'[s] = site[s]
                   /\ site'[tasks[t].site].Enabled = site[tasks[t].site].Enabled]_vars

\* A Check has just failed with a 500 and left its target down; its task
\* is back at its select, and the other target is registered, up, with its
\* own task running.
C19_Witness ==
    /\ call = Ret("Check", 500, "HTTP error")
    /\ \E t, u \in TaskIds :
          /\ t # u
          /\ tasks[t].pc = "select" /\ ~tasks[t].done
          /\ tasks[u].pc = "select" /\ ~tasks[u].done
          /\ Registered(tasks[t].site) /\ Registered(tasks[u].site)
          /\ site[tasks[t].site].Status = statusDown
          /\ site[tasks[u].site].Status = statusUp

\* The plain token CreateSession returned together with the session of
\* this row.
PlainTokenOf(session) == UUIDString(session.Token.v)

\* C20: the session round trip.  ValidateSession with the plain token that
\* CreateSession returned, called while the session is stored and not
\* after its ExpiresAt, returns that session; and ValidateSession returns
\* no session whose ExpiresAt is before the current time: it deletes such
\* a session and returns an error.
C20_SessionRoundTrip ==
    [][/\ \A session \in sessions :
             (ValidateSession(PlainTokenOf(session)) /\ ~Expired(session))
                 => (call'.res = "" /\ call'.out = session.ID)
       /\ (call'.op = "ValidateSession" /\ call'.res = "")
             => \E session \in sessions : session.ID = call'.out /\ ~Expired(session)
       /\ \A session \in sessions :
             (ValidateSession(session.Token) /\ Expired(session))
                 => (call'.res # "" /\ session \notin sessions')]_vars

====
